---------------------------- MODULE Spec2Model ----------------------------
(***************************************************************************)
(* A model of seqwish's disk-backed multimap, src/src/dmultimap.hpp,       *)
(* instantiated as dmultimap<uint8_t, uint8_t>: one byte of key and one    *)
(* byte of value per record.  The backing file is a sequence of records    *)
(* <<key, value>>; the writer's stream buffer holds the records written    *)
(* but not yet on disk.  assert() is taken as enabled: a failed assert     *)
(* ends the operation in an error outcome.                                 *)
(***************************************************************************)
EXTENDS Integers, Sequences, FiniteSets, TLC

(* ------------------------------ bounds -------------------------------- *)
MaxKey == 2
MaxValue == 1
MaxAppends == 2
MaxFile == 4

(* ------------------------- program constants -------------------------- *)
sizeofKey == 1
sizeofValue == 1
OUTPUT_VERSION == 1
record_size == sizeofKey + sizeofValue

Key == 0..MaxKey
Value == 0..MaxValue
Record == Key \X Value

VARIABLES
    named,      \* filename (and index_filename) non-empty: the data file exists
    file,       \* the records of the backing file on disk
    wbuf,       \* records written to the writer and not yet flushed
    wopen,      \* writer.is_open()
    ropen,      \* reader.is_open()
    rfail,      \* the reader's failbit
    sorted,
    indexed,
    max_key,
    key_cbv,    \* the compressed key-starts bit vector, as a sequence of bits
    built,      \* key_cbv_select was built over key_cbv
    nullvalue,
    idx,        \* the companion index file
    ld,         \* a second instance, the one that calls load()
    lost,       \* an append() wrote to a writer that was not open
    appended,   \* how often each (key, value) was handed to append() by the caller
    out         \* the last operation and its outcome

vars == <<named, file, wbuf, wopen, ropen, rfail, sorted, indexed, max_key,
          key_cbv, built, nullvalue, idx, ld, lost, appended, out>>

(* ------------------------------ helpers ------------------------------- *)
Count(s, x) == Cardinality({i \in 1..Len(s) : s[i] = x})

KeysOf(s) == {s[i][1] : i \in 1..Len(s)}

ValuesOfKey(s, k) ==
    LET t == SelectSeq(s, LAMBDA r : r[1] = k)
    IN  [i \in 1..Len(t) |-> t[i][2]]

SameMultiset(s, t) ==
    /\ Len(s) = Len(t)
    /\ \A i \in 1..Len(s) : Count(s, s[i]) = Count(t, s[i])

IsSorted(f) == \A i \in 1..Len(f) - 1 : f[i][1] <= f[i + 1][1]

(* ------------------------- the file handles --------------------------- *)
(* The part of the state an operation works on: S.ran counts the runs of   *)
(* the external sorter inside the operation, S.held tells whether one of   *)
(* them ran while the writer or the reader was open, S.err is a failed     *)
(* assert or a thrown failure.                                             *)
Cur ==
    [file |-> file, wbuf |-> wbuf, wopen |-> wopen, ropen |-> ropen,
     rfail |-> rfail, sorted |-> sorted, ran |-> 0, held |-> FALSE,
     err |-> FALSE]

Fail(S) == [S EXCEPT !.err = TRUE]

\* open_reader(): seekg(0) on an open reader, else assert(!filename.empty())
\* and open, which clears the stream state.
open_reader(S) ==
    IF S.ropen THEN S
    ELSE IF ~named THEN Fail(S)
    ELSE [S EXCEPT !.ropen = TRUE, !.rfail = FALSE]

\* open_writer(): append mode; an open writer is only repositioned.
open_writer(S) ==
    IF S.wopen THEN S
    ELSE IF ~named THEN Fail(S)
    ELSE [S EXCEPT !.wopen = TRUE]

\* close_writer(): closing flushes the stream buffer to the file.
close_writer(S) ==
    IF S.wopen
    THEN [S EXCEPT !.wopen = FALSE, !.file = S.file \o S.wbuf, !.wbuf = <<>>]
    ELSE S

close_reader(S) == IF S.ropen THEN [S EXCEPT !.ropen = FALSE] ELSE S

\* The writer's buffer may reach the file at any record boundary before the
\* writer is closed.
Flushes(S) ==
    {[S EXCEPT !.file = S.file \o SubSeq(S.wbuf, 1, m),
               !.wbuf = SubSeq(S.wbuf, m + 1, Len(S.wbuf))] : m \in 0..Len(S.wbuf)}

\* record_count(): the reader's end position over record_size.  On a failed
\* reader tellg() is -1 and the assert on the remainder fails.
TellEnd(S) == IF S.rfail THEN -1 ELSE Len(S.file) * record_size

record_count_fails(S) == S.err \/ (TellEnd(S) % record_size) # 0

record_count(S) == TellEnd(S) \div record_size

\* nth_key(n) over the file f: the key read at n * record_size; a read at or
\* past the end of the file leaves the local uninitialised.
nth_key(f, n) == IF n < Len(f) THEN {f[n + 1][1]} ELSE Key

(* --------------------------- external sorter --------------------------- *)
PermsOfValues(vs) ==
    {t \in [1..Len(vs) -> {vs[i] : i \in 1..Len(vs)}] : SameMultiset(t, vs)}

RECURSIVE RunsFrom(_, _)
RunsFrom(f, k) ==
    IF k > MaxKey THEN {<<>>}
    ELSE {[i \in 1..Len(p) |-> <<k, p[i]>>] \o r :
             p \in PermsOfValues(ValuesOfKey(f, k)), r \in RunsFrom(f, k + 1)}

\* bsort::radixify: the records in non-decreasing key order, ties in any order.
radixify(f) == RunsFrom(f, 0)

\* bsort::open_sort: TRUE in the set when it may return -1.  It fails on a
\* file that does not exist; on an empty file either result is possible.
open_sort_fails(f) ==
    IF ~named THEN {TRUE}
    ELSE IF Len(f) = 0 THEN {TRUE, FALSE}
    ELSE {FALSE}

(* -------------------------------- sort --------------------------------- *)
\* sort() without its early return on the sorted flag.
sort_unguarded(S) ==
    LET c == close_writer(close_reader(S))
    IN  UNION {IF bad THEN {Fail(c)}
               ELSE {[c EXCEPT !.file = g, !.sorted = TRUE, !.ran = @ + 1,
                               !.held = @ \/ c.wopen \/ c.ropen] :
                        g \in radixify(c.file)} :
               bad \in open_sort_fails(c.file)}

\* sort() without close_reader() and close_writer(): the sorter rewrites the
\* file under the open handles.
sort_unclosed(S) ==
    IF S.sorted THEN {S}
    ELSE LET c == S
         IN  UNION {IF bad THEN {Fail(c)}
                    ELSE {[c EXCEPT !.file = g, !.sorted = TRUE, !.ran = @ + 1,
                                    !.held = @ \/ c.wopen \/ c.ropen] :
                             g \in radixify(c.file)} :
                    bad \in open_sort_fails(c.file)}

sort(S) ==
    IF S.sorted THEN {S}
    ELSE LET c == close_writer(close_reader(S))
         IN  UNION {IF bad THEN {Fail(c)}
                    ELSE {[c EXCEPT !.file = g, !.sorted = TRUE, !.ran = @ + 1,
                                    !.held = @ \/ c.wopen \/ c.ropen] :
                             g \in radixify(c.file)} :
                    bad \in open_sort_fails(c.file)}

(* --------------------------------- pad --------------------------------- *)
\* The records pad()'s loop hands to append(): i is the loop counter, which
\* advances by record_size while the reader advances by one record.
RECURSIVE pad_loop(_, _, _, _, _)
pad_loop(f, i, n, prev, acc) ==
    IF i >= n THEN acc
    ELSE LET rec == f[i \div record_size + 1]
             curr == rec[1]
             gap == IF prev + 1 < curr
                    THEN [t \in 1..(curr - 1 - prev) |-> <<prev + t - 1, nullvalue>>]
                    ELSE <<>>
         IN  pad_loop(f, i + record_size, n, curr,
                      [app |-> acc.app \o gap \o <<rec>>,
                       missing |-> acc.missing \/ prev + 1 < curr])

pad(S) ==
    IF ~S.sorted THEN {Fail(S)}
    ELSE LET w == open_writer(open_reader(S))
         IN  IF record_count_fails(w) THEN {Fail(w)}
             ELSE LET n == record_count(w)
                      r == pad_loop(w.file, 0, n, 0, [app |-> <<>>, missing |-> FALSE])
                      a == [w EXCEPT !.wbuf = @ \o r.app,
                                     !.sorted = IF r.app = <<>> THEN @ ELSE FALSE]
                  IN  IF r.missing THEN sort(a) ELSE Flushes(a)

\* The byte offsets at which pad()'s loop reads a key: i is the loop counter,
\* n the record count, pos the reader's position, which a pass moves on by
\* one record.
RECURSIVE pad_reads(_, _, _)
pad_reads(i, n, pos) ==
    IF i >= n THEN <<>>
    ELSE <<pos>> \o pad_reads(i + record_size, n, pos + sizeofKey + sizeofValue)

(* -------------------------------- index -------------------------------- *)
\* The key-sized read at byte offset off of the file: index()'s loop reads
\* sizeof(Key) bytes at a time and never skips the value bytes.
ReadKeyAt(f, off) ==
    LET r == f[off \div record_size + 1]
    IN  IF off % record_size < sizeofKey THEN r[1] ELSE r[2]

\* index()'s loop: i is the loop counter (the bit it may set), t the number of
\* key-sized reads done so far.  After an iteration curr = last on either
\* branch, so max_key = curr is last once the loop has run, and is
\* uninitialised when it has not.
RECURSIVE index_loop(_, _, _, _, _, _)
index_loop(f, i, n, t, last, bv) ==
    IF i >= n THEN [bv |-> bv, curr |-> IF t > 1 THEN {last} ELSE Key]
    ELSE LET curr == ReadKeyAt(f, t * sizeofKey)
         IN  IF curr # last
             THEN index_loop(f, i + record_size, n, t + 1, curr,
                             [bv EXCEPT ![i + 1] = 1])
             ELSE index_loop(f, i + record_size, n, t + 1, last, bv)

\* The scan of index() over a file of n >= 1 records: the bit vector and the
\* values max_key may take (uninitialised when the loop never runs).
index_scan(f) ==
    LET n == Len(f)
        bv0 == [i \in 1..n |-> IF i = 1 THEN 1 ELSE 0]
    IN  index_loop(f, 1, n, 1, f[1][1], bv0)

\* The byte offsets at which index()'s loop reads a key, the read of `last`
\* before the loop having left the reader at pos: a pass moves the reader
\* on by the size of a key.
RECURSIVE index_reads(_, _, _)
index_reads(i, n, pos) ==
    IF i >= n THEN <<>>
    ELSE <<pos>> \o index_reads(i + record_size, n, pos + sizeofKey)

\* index(): the outcomes [s, done, bv, mk].  On an empty file the write of
\* key_bv[0] is out of bounds and both reads fail: the build may stop there
\* or go on with an empty vector and an uninitialised max_key.
index(S) ==
    UNION {
      IF p.err THEN {[s |-> p, done |-> FALSE, bv |-> key_cbv, mk |-> max_key]}
      ELSE LET r == open_reader(p)
           IN  IF record_count_fails(r)
               THEN {[s |-> Fail(r), done |-> FALSE, bv |-> key_cbv, mk |-> max_key]}
               ELSE IF record_count(r) = 0
               THEN {[s |-> Fail(r), done |-> FALSE, bv |-> key_cbv, mk |-> max_key]}
                    \cup {[s |-> [r EXCEPT !.rfail = TRUE], done |-> TRUE,
                            bv |-> <<>>, mk |-> k] : k \in Key}
               ELSE LET sc == index_scan(r.file)
                    IN  {[s |-> r, done |-> TRUE, bv |-> sc.bv, mk |-> k] :
                            k \in sc.curr}
      : p \in UNION {IF q.err THEN {q} ELSE pad(q) : q \in sort(S)}}

(* ------------------------------- values -------------------------------- *)
Ones(bv) == {i \in 1..Len(bv) : bv[i] = 1}

\* key_cbv_select(r): the position of the r-th set bit, counted from 0.  An
\* argument past the last set bit, or a select structure that was never
\* built, is outside the contract: any position, or (-1) no return at all.
select(bv, isbuilt, r, n) ==
    IF isbuilt /\ r < Cardinality(Ones(bv))
    THEN {(CHOOSE p \in Ones(bv) : Cardinality({q \in Ones(bv) : q < p}) = r) - 1}
    ELSE IF isbuilt THEN 0..(n + 1)
    ELSE -1..(n + 1)

\* nth_value(p) for p in [i, j): a read past the end or on a failed reader
\* leaves the local as it was (g).
read_values(f, failed, i, j, g) ==
    [p \in 1..(IF j > i THEN j - i ELSE 0) |->
        IF ~failed /\ i + p - 1 < Len(f) THEN f[i + p][2] ELSE g]

\* values(key) on an instance with reader state S, bit vector bv and max_key
\* mk: the outcomes [s, vals].
values(S, bv, isbuilt, mk, key) ==
    LET r == open_reader(S)
        n == Len(r.file)
    IN  IF r.err THEN {[s |-> r, vals |-> <<>>]}
        ELSE UNION {
               IF i = -1 THEN {[s |-> Fail(r), vals |-> <<>>]}
               ELSE IF key < mk
               THEN UNION {
                      IF j = -1 THEN {[s |-> Fail(r), vals |-> <<>>]}
                      ELSE {[s |-> [r EXCEPT !.rfail = @ \/ (i < j /\ j > n)],
                             vals |-> read_values(r.file, r.rfail, i, j, g)] :
                               g \in (IF r.rfail \/ (i < j /\ j > n) THEN Value ELSE {0})}
                      : j \in select(bv, isbuilt, key + 1, n)}
               ELSE IF record_count_fails(r) THEN {[s |-> Fail(r), vals |-> <<>>]}
               ELSE {[s |-> r, vals |-> read_values(r.file, r.rfail, i, record_count(r), 0)]}
               : i \in select(bv, isbuilt, key, n)}

(* ----------------------------- save, load ------------------------------ *)
NoIdx ==
    [present |-> FALSE, version |-> 0, record_size |-> 0, n_records |-> 0,
     max_key |-> 0, key_cbv |-> <<>>, built |-> FALSE]

NoLd ==
    [state |-> "none", max_key |-> 0, key_cbv |-> <<>>, built |-> FALSE,
     indexed |-> FALSE, ropen |-> FALSE, rfail |-> FALSE]

\* save() without its assert on max_key and indexed.
save_unguarded(S) ==
    LET r == open_reader(S)
    IN  IF record_count_fails(r) THEN [s |-> Fail(r), idx |-> NoIdx]
        ELSE [s |-> r,
              idx |-> [present |-> TRUE, version |-> OUTPUT_VERSION,
                       record_size |-> record_size,
                       n_records |-> record_count(r),
                       max_key |-> max_key, key_cbv |-> key_cbv,
                       built |-> built]]

\* save(): the outcomes [s, idx].  The index file is opened, and so
\* truncated, before record_count() is evaluated.
save(S) ==
    IF ~(max_key # 0 /\ indexed) THEN [s |-> Fail(S), idx |-> idx]
    ELSE LET r == open_reader(S)
         IN  IF record_count_fails(r) THEN [s |-> Fail(r), idx |-> NoIdx]
             ELSE [s |-> r,
                   idx |-> [present |-> TRUE, version |-> OUTPUT_VERSION,
                            record_size |-> record_size,
                            n_records |-> record_count(r),
                            max_key |-> max_key, key_cbv |-> key_cbv,
                            built |-> built]]

FailedLd == [NoLd EXCEPT !.state = "failed"]

\* load(f) on a fresh instance, the index file being there: byname tells whether it was constructed with
\* the file name (dmultimap(f)) or without (dmultimap()).  open_reader() runs
\* before set_base_filename(f).  The last assert compares max_key with
\* nth_key(n_records), a read at the end of the file, which also sets the
\* reader's failbit.
load(byname) ==
    IF ~byname \/ ~named THEN {FailedLd}
    ELSE IF idx.version # OUTPUT_VERSION THEN {FailedLd}
    ELSE IF idx.record_size # record_size THEN {FailedLd}
    ELSE IF idx.n_records # Len(file) THEN {FailedLd}
    ELSE {IF idx.max_key = k
          THEN [state |-> "ok", max_key |-> idx.max_key, key_cbv |-> idx.key_cbv,
                built |-> idx.built, indexed |-> FALSE, ropen |-> TRUE,
                rfail |-> idx.n_records >= Len(file)]
          ELSE FailedLd : k \in nth_key(file, idx.n_records)}

\* save() called on the instance that loaded: its own max_key and indexed
\* decide the assert; load() assigned max_key, key_cbv and key_cbv_select and
\* left indexed as the constructor set it.
loaded_save(S) ==
    IF ~(ld.max_key # 0 /\ ld.indexed) THEN [s |-> Fail(S), idx |-> idx]
    ELSE LET r == open_reader(S)
         IN  IF record_count_fails(r) THEN [s |-> Fail(r), idx |-> NoIdx]
             ELSE [s |-> r,
                   idx |-> [present |-> TRUE, version |-> OUTPUT_VERSION,
                            record_size |-> record_size,
                            n_records |-> record_count(r),
                            max_key |-> ld.max_key, key_cbv |-> ld.key_cbv,
                            built |-> ld.built]]

(* ------------------------------- actions ------------------------------- *)
Result(op, S, key, vals) ==
    [op |-> op, res |-> IF S.err THEN "error" ELSE "ok", key |-> key,
     vals |-> vals, ran |-> S.ran, held |-> S.held]

RECURSIVE SumOver(_, _)
SumOver(f, D) ==
    IF D = {} THEN 0
    ELSE LET x == CHOOSE y \in D : TRUE IN f[x] + SumOver(f, D \ {x})

NAppended == SumOver(appended, Record)

\* A failed assert aborts the process: nothing runs after an error.
Running == out.res = "ok"

\* The write and build phase comes strictly before the read-only query
\* phase, and a run of the model ends with one query on the instance that
\* built the index or with a load() and one query on the instance that
\* loaded it.
Building == out.op \notin {"values", "loaded_values"} /\ ld.state = "none"

\* Once the index is saved the data file is only appended to.
Unsaved == ~idx.present

Commit(S) ==
    /\ file' = S.file
    /\ wbuf' = S.wbuf
    /\ wopen' = S.wopen
    /\ ropen' = S.ropen
    /\ rfail' = S.rfail
    /\ sorted' = S.sorted

Init ==
    /\ named = FALSE
    /\ file = <<>>
    /\ wbuf = <<>>
    /\ wopen = FALSE
    /\ ropen = FALSE
    /\ rfail = FALSE
    /\ sorted = FALSE
    /\ indexed = FALSE
    /\ max_key = 0
    /\ key_cbv = <<>>
    /\ built = FALSE
    /\ nullvalue \in Value
    /\ idx = NoIdx
    /\ ld = NoLd
    /\ lost = FALSE
    /\ appended = [r \in Record |-> 0]
    /\ out = [op |-> "init", res |-> "ok", key |-> 0, vals |-> <<>>, ran |-> 0,
              held |-> FALSE]

\* open_writer(f), called while the writer is closed: it names the files and
\* opens (and first creates) the data file for appending.
OpenWriter ==
    /\ Running
    /\ Building
    /\ ~wopen
    /\ named' = TRUE
    /\ wopen' = TRUE
    /\ out' = Result("open_writer", Cur, 0, <<>>)
    /\ UNCHANGED <<file, wbuf, ropen, rfail, sorted, indexed, max_key, key_cbv,
                   built, nullvalue, idx, ld, lost, appended>>

\* append(k, v) made to invalidate the index: it also clears indexed.
AppendKV_unindex(k, v) ==
    /\ Running
    /\ Building
    /\ NAppended < MaxAppends
    /\ Len(file) + Len(wbuf) < MaxFile
    /\ \E S \in (IF wopen THEN Flushes([Cur EXCEPT !.wbuf = @ \o <<(<<k, v>>)>>,
                                                  !.sorted = FALSE])
                 ELSE {[Cur EXCEPT !.sorted = FALSE]}) :
          /\ Commit(S)
          /\ out' = Result("append", S, k, <<>>)
    /\ appended' = [appended EXCEPT ![<<k, v>>] = @ + 1]
    /\ lost' = (lost \/ ~wopen)
    /\ indexed' = FALSE
    /\ UNCHANGED <<named, max_key, key_cbv, built, nullvalue, idx, ld>>

\* append(k, v) without its assignment to the sorted flag.
AppendKV_keepflag(k, v) ==
    /\ Running
    /\ Building
    /\ NAppended < MaxAppends
    /\ Len(file) + Len(wbuf) < MaxFile
    /\ \E S \in (IF wopen THEN Flushes([Cur EXCEPT !.wbuf = @ \o <<(<<k, v>>)>>])
                 ELSE {Cur}) :
          /\ Commit(S)
          /\ out' = Result("append", S, k, <<>>)
    /\ appended' = [appended EXCEPT ![<<k, v>>] = @ + 1]
    /\ lost' = (lost \/ ~wopen)
    /\ UNCHANGED <<named, indexed, max_key, key_cbv, built, nullvalue, idx, ld>>

\* append(k, v): a write to a writer that is not open is lost.
AppendKV(k, v) ==
    /\ Running
    /\ Building
    /\ NAppended < MaxAppends
    /\ Len(file) + Len(wbuf) < MaxFile
    /\ \E S \in (IF wopen THEN Flushes([Cur EXCEPT !.wbuf = @ \o <<(<<k, v>>)>>,
                                                  !.sorted = FALSE])
                 ELSE {[Cur EXCEPT !.sorted = FALSE]}) :
          /\ Commit(S)
          /\ out' = Result("append", S, k, <<>>)
    /\ appended' = [appended EXCEPT ![<<k, v>>] = @ + 1]
    /\ lost' = (lost \/ ~wopen)
    /\ UNCHANGED <<named, indexed, max_key, key_cbv, built, nullvalue, idx, ld>>

Sort ==
    /\ Running
    /\ Building
    /\ Unsaved
    /\ \E S \in sort(Cur) :
          /\ Commit(S)
          /\ out' = Result("sort", S, 0, <<>>)
    /\ UNCHANGED <<named, indexed, max_key, key_cbv, built, nullvalue, idx, ld,
                   lost, appended>>

Pad ==
    /\ Running
    /\ Building
    /\ Unsaved
    /\ \E S \in pad(Cur) :
          /\ Len(S.file) + Len(S.wbuf) <= MaxFile
          /\ Commit(S)
          /\ out' = Result("pad", S, 0, <<>>)
    /\ UNCHANGED <<named, indexed, max_key, key_cbv, built, nullvalue, idx, ld,
                   lost, appended>>

Index ==
    /\ Running
    /\ Building
    /\ Unsaved
    /\ \E R \in index(Cur) :
          /\ Len(R.s.file) + Len(R.s.wbuf) <= MaxFile
          /\ Commit(R.s)
          /\ key_cbv' = R.bv
          /\ max_key' = R.mk
          /\ built' = (built \/ R.done)
          /\ indexed' = (indexed \/ R.done)
          /\ out' = Result("index", R.s, 0, <<>>)
    /\ UNCHANGED <<named, nullvalue, idx, ld, lost, appended>>

Values(key) ==
    /\ Running
    /\ Building
    /\ \E R \in values(Cur, key_cbv, built, max_key, key) :
          /\ Commit(R.s)
          /\ out' = Result("values", R.s, key, R.vals)
    /\ UNCHANGED <<named, indexed, max_key, key_cbv, built, nullvalue, idx, ld,
                   lost, appended>>

Save ==
    /\ Running
    /\ Building
    /\ Unsaved
    /\ LET R == save(Cur)
       IN  /\ Commit(R.s)
           /\ idx' = R.idx
           /\ out' = Result("save", R.s, 0, <<>>)
    /\ UNCHANGED <<named, indexed, max_key, key_cbv, built, nullvalue, ld,
                   lost, appended>>

Load(byname) ==
    /\ Running
    /\ Building
    /\ idx.present
    /\ \E L \in load(byname) :
          /\ ld' = L
          /\ out' = [op |-> "load", res |-> IF L.state = "ok" THEN "ok" ELSE "error",
                     key |-> IF byname THEN 1 ELSE 0, vals |-> <<>>, ran |-> 0,
                     held |-> FALSE]
    /\ UNCHANGED <<named, file, wbuf, wopen, ropen, rfail, sorted, indexed,
                   max_key, key_cbv, built, nullvalue, idx, lost, appended>>

\* values(key) on the instance that loaded.
LoadedValues(key) ==
    /\ Running
    /\ out.op = "load"
    /\ ld.state = "ok"
    /\ \E R \in values([Cur EXCEPT !.ropen = ld.ropen, !.rfail = ld.rfail],
                        ld.key_cbv, ld.built, ld.max_key, key) :
          /\ ld' = [ld EXCEPT !.ropen = R.s.ropen, !.rfail = R.s.rfail]
          /\ out' = Result("loaded_values", R.s, key, R.vals)
    /\ UNCHANGED <<named, file, wbuf, wopen, ropen, rfail, sorted, indexed,
                   max_key, key_cbv, built, nullvalue, idx, lost, appended>>

\* save() on the instance that loaded.
LoadedSave ==
    /\ Running
    /\ out.op = "load"
    /\ ld.state = "ok"
    /\ LET R == loaded_save([Cur EXCEPT !.ropen = ld.ropen, !.rfail = ld.rfail])
       IN  /\ ld' = [ld EXCEPT !.ropen = R.s.ropen, !.rfail = R.s.rfail]
           /\ idx' = R.idx
           /\ out' = Result("loaded_save", R.s, 0, <<>>)
    /\ UNCHANGED <<named, file, wbuf, wopen, ropen, rfail, sorted, indexed,
                   max_key, key_cbv, built, nullvalue, lost, appended>>

\* The record store with its sorter and densifier.
NextStore ==
    \/ OpenWriter
    \/ \E k \in Key, v \in Value : AppendKV(k, v)
    \/ Sort
    \/ Pad

Next ==
    \/ NextStore
    \/ Index
    \/ \E k \in 0..(MaxKey + 1) : Values(k)
    \/ Save
    \/ \E b \in BOOLEAN : Load(b)
    \/ \E k \in 0..(MaxKey + 1) : LoadedValues(k)
    \/ LoadedSave

Spec == Init /\ [][Next]_vars

SpecStore == Init /\ [][NextStore]_vars

(* ------------------------------ the claims ----------------------------- *)
AppendedKeys == {k \in Key : \E v \in Value : appended[<<k, v>>] > 0}

MaxAppended == CHOOSE k \in AppendedKeys : \A j \in AppendedKeys : j <= k

\* The caller appended at least one record and every append reached the
\* writer.
Stored == NAppended > 0 /\ ~lost

Dense(f) == \A r \in 1..Len(f) : \A k \in 0..f[r][1] : k \in KeysOf(f)

QueryOutcomes(S, bv, isbuilt, mk, key) ==
    {[err |-> R.s.err, vals |-> R.vals] : R \in values(S, bv, isbuilt, mk, key)}

\* A store of two or more appended records whose file holds these and no
\* others: index()'s loop ran, so max_key was assigned, and nothing that
\* pad() wrote has reached the file.
Scanned == Stored /\ NAppended >= 2 /\ Len(file) = NAppended

\* C1: round trip.  values(k) called right after a completed index() returns,
\* for an appended key k, exactly the multiset of the values appended with k
\* and, for a key of [0, max_key] that was never appended, only null
\* sentinels (all-zero values).  Stated for stores of two or more records.
C1_RoundTrip ==
    [][(/\ out.op = "index" /\ out.res = "ok" /\ Scanned
        /\ out'.op = "values" /\ out'.key <= MaxAppended)
       => /\ out'.res = "ok"
          /\ IF out'.key \in AppendedKeys
             THEN \A v \in Value : Count(out'.vals, v) = appended[<<out'.key, v>>]
             ELSE \A i \in 1..Len(out'.vals) : out'.vals[i] = 0]_vars

\* C2: density.  After a completed pad() on a non-empty store every key of
\* [0, greatest appended key] has a record (written to the file or still in
\* the writer's buffer).
C2_Density ==
    (out.op = "pad" /\ out.res = "ok" /\ Stored)
        => \A k \in 0..MaxAppended : k \in KeysOf(file \o wbuf)

\* C3: select correctness.  After a completed index() the ranges values()
\* reads for the keys 0..max_key start at record 0, are each delimited by
\* set bits of the key-starts vector (the last by record_count()), and hold
\* only records of their own key.  Stated for stores of two or more records.
C3_SelectPartition ==
    (out.op = "index" /\ out.res = "ok" /\ Scanned)
        => /\ max_key < Cardinality(Ones(key_cbv))
           /\ \A k \in 0..max_key :
                \A i \in select(key_cbv, built, k, Len(file)) :
                  \A j \in (IF k < max_key
                            THEN select(key_cbv, built, k + 1, Len(file))
                            ELSE {Len(file)}) :
                     /\ (k = 0 => i = 0)
                     /\ i >= 0 /\ i < j /\ j <= Len(file)
                     /\ \A q \in (i + 1)..j : file[q][1] = k

\* C4: persistence fidelity.  A load() that directly follows a completed
\* save() succeeds, and the instance that loaded answers values(k) for every
\* k of [0, max_key] as the instance that saved does.  Stated for stores of
\* two or more records.
C4_Persistence ==
    [][(out.op = "save" /\ out.res = "ok" /\ Scanned /\ out'.op = "load")
       => /\ out'.res = "ok"
          /\ ld'.max_key = max_key
          /\ ld'.key_cbv = key_cbv
          /\ \A k \in 0..max_key :
               QueryOutcomes([Cur EXCEPT !.ropen = ld'.ropen, !.rfail = ld'.rfail],
                             ld'.key_cbv, ld'.built, ld'.max_key, k)
                 = QueryOutcomes(Cur, key_cbv, built, max_key, k)]_vars

\* C5: out-of-range query.  On an indexed structure values(key) with
\* key > max_key ends in an error.  Stated for stores of two or more records
\* and for the keys whose select query the bit vector can answer.
C5_OutOfRange ==
    (/\ out.op = "values" /\ indexed /\ Scanned
     /\ out.key > max_key /\ out.key < Cardinality(Ones(key_cbv)))
        => out.res = "error"

\* C6: pad() idempotence.  pad() on a store that is sorted and dense
\* completes without error, appends no record and runs no sort.
C6_PadIdempotent ==
    [][(/\ sorted /\ Len(file) > 0 /\ IsSorted(file) /\ Dense(file)
        /\ out'.op = "pad")
       => /\ out'.res = "ok"
          /\ out'.ran = 0
          /\ file' \o wbuf' = file \o wbuf]_vars

\* C7: sort() idempotence.  A sort() that directly follows a completed
\* sort() leaves the file, the writer's buffer and the sorted flag as they
\* were and does not run the external sorter.
C7_SortIdempotent ==
    [][(out.op = "sort" /\ out.res = "ok" /\ out'.op = "sort")
       => /\ out'.res = "ok"
          /\ out'.ran = 0
          /\ file' = file
          /\ wbuf' = wbuf
          /\ sorted' = sorted]_vars

\* A sort() of a file of two or more records that returned without running
\* the sorter: the flag was still set from the sort before it.
C7_Witness ==
    out.op = "sort" /\ out.res = "ok" /\ out.ran = 0 /\ sorted /\ Len(file) >= 2

\* C8: empty structure.  With no record ever appended pad() and index() end
\* in an error, and the structure is not indexed.
C8_EmptyRejected ==
    (out.op \in {"pad", "index"} /\ NAppended = 0)
        => (out.res = "error" /\ ~indexed)

\* C9: state gating.  values() and save() on a structure that is not indexed
\* end in an error.
C9_StateGating ==
    (out.op \in {"values", "save"} /\ ~indexed) => out.res = "error"

\* C10: load() validation.  load() on an instance constructed over the data
\* file fails if and only if the saved version, record size, record count or
\* max_key disagrees with the running instance and the data file, max_key
\* being compared with the key of the last record.  Stated for stores of two
\* or more records.
C10_LoadValidation ==
    (out.op = "load" /\ out.key = 1 /\ Scanned)
        => (out.res = "error"
              <=> \/ idx.version # OUTPUT_VERSION
                  \/ idx.record_size # record_size
                  \/ idx.n_records # Len(file)
                  \/ Len(file) = 0
                  \/ idx.max_key # file[Len(file)][1])

\* C11: load() transition.  After a successful load() on a fresh instance the
\* structure counts as indexed: a save() on it is accepted, and so is
\* values(k) for every k of [0, max_key].  Stated for stores of two or more
\* records.
C11_LoadIndexed ==
    [][(out.op = "load" /\ out.res = "ok" /\ Scanned)
       => /\ ld.indexed
          /\ out'.op = "loaded_save" => out'.res = "ok"
          /\ (out'.op = "loaded_values" /\ out'.key <= ld.max_key)
                => out'.res = "ok"]_vars

MaxKeyOf(f) == CHOOSE k \in KeysOf(f) : \A j \in KeysOf(f) : j <= k

\* C12: pad() only fills gaps.  pad() on a sorted, non-empty store with
\* records R and greatest key M leaves exactly R plus one record (k, 0) for
\* each k of [0, M] that has no record in R: every record is there as often
\* as before, the synthetic ones once.
C12_PadOnlyGaps ==
    [][(sorted /\ Len(file) > 0 /\ out'.op = "pad" /\ out'.res = "ok")
       => \A rec \in Record :
            Count(file' \o wbuf', rec)
              = Count(file, rec)
                + (IF rec[2] = 0 /\ rec[1] <= MaxKeyOf(file) /\ rec[1] \notin KeysOf(file)
                   THEN 1 ELSE 0)]_vars

\* C13: key-starts bit vector.  After a completed index() the bit vector has
\* one bit per record of the file, bit 0 is set, bit i >= 1 is set exactly
\* when record i has another key than record i - 1, and max_key + 1 bits are
\* set.  Stated for stores of two or more records.
C13_KeyStarts ==
    (out.op = "index" /\ out.res = "ok" /\ Scanned)
        => /\ Len(key_cbv) = Len(file)
           /\ key_cbv[1] = 1
           /\ \A i \in 2..Len(file) :
                 key_cbv[i] = 1 <=> file[i][1] # file[i - 1][1]
           /\ Cardinality(Ones(key_cbv)) = max_key + 1

\* C14: max_key after index().  After a completed index() on a non-empty
\* store, a store of a single record included, max_key is the greatest key
\* that was appended.
C14_MaxKey ==
    (out.op = "index" /\ out.res = "ok" /\ Stored) => max_key = MaxAppended

\* C15: pad() re-sort.  A completed pad() ran the external sorter once if it
\* appended a record and not at all otherwise, and in both cases it returns
\* with the sorted flag set and the records of the file in non-decreasing
\* key order, none left in the writer's buffer.
C15_PadResort ==
    [][(out'.op = "pad" /\ out'.res = "ok")
       => /\ out'.ran = (IF Len(file' \o wbuf') > Len(file \o wbuf) THEN 1 ELSE 0)
          /\ sorted'
          /\ wbuf' = <<>>
          /\ IsSorted(file')]_vars

\* C16: handle discipline.  Whenever the external sorter rewrites the file,
\* in sort() or in the sort() calls of pad() and index(), the writer and the
\* reader are both closed; after a sort() or a pad() whose sorter ran they
\* are still closed, until a later operation opens them.
C16_HandlesClosed ==
    /\ out.ran > 0 => ~out.held
    /\ (out.op \in {"sort", "pad"} /\ out.res = "ok" /\ out.ran > 0)
          => (~wopen /\ ~ropen /\ wbuf = <<>>)

\* A pad(), which opens the reader and the writer for its scan, appended
\* records and ran the sorter: the handles are closed again.
C16_Witness ==
    /\ out.op = "pad" /\ out.res = "ok" /\ out.ran = 1
    /\ ~wopen /\ ~ropen /\ Len(file) >= 2

\* C17: sorted-flag invariant.  Whenever the sorted flag is set the records
\* of the file are in non-decreasing key order and none waits in the
\* writer's buffer; every append() leaves the flag clear, and the flag only
\* goes from clear to set in an operation in which a run of the external
\* sorter completed.
C17_SortedFlag ==
    [][/\ sorted' => (IsSorted(file') /\ wbuf' = <<>>)
       /\ out'.op = "append" => ~sorted'
       /\ (~sorted /\ sorted') => out'.ran >= 1]_vars

\* A sort() ran the sorter over a file of two or more records with more
\* than one key and set the flag.
C17_Witness ==
    /\ out.op = "sort" /\ out.ran = 1 /\ sorted
    /\ Len(file) >= 2 /\ file[1][1] < file[Len(file)][1]

\* C18: full scan.  The loop of pad() reads the key of every record of the
\* file once, in file order, at the record's own offset r * record_size, and
\* the loop of index(), which follows the read of record 0, does so for the
\* records 1 .. record_count() - 1.
C18_FullScan ==
    [][/\ (out'.op = "pad" /\ out'.res = "ok")
            => pad_reads(0, Len(file), 0)
                 = [r \in 1..Len(file) |-> (r - 1) * record_size]
       /\ (out'.op = "index" /\ out'.res = "ok" /\ Len(file') > 0)
            => index_reads(1, Len(file'), sizeofKey)
                 = [r \in 1..(Len(file') - 1) |-> r * record_size]]_vars

\* C19: save() guard.  save() writes the index file only when indexed is set
\* and max_key is not zero; in every other state, an indexed structure with
\* max_key = 0 included, it ends in an error and leaves the index file and
\* the reader as they were.
C19_SaveGuard ==
    [][out'.op = "save"
       => /\ (idx' # idx \/ out'.res = "ok") => (indexed /\ max_key # 0)
          /\ ~(indexed /\ max_key # 0)
               => (out'.res = "error" /\ idx' = idx /\ ropen' = ropen)]_vars

\* save() was refused on an indexed structure whose max_key is 0, and there
\* is no index file.
C19_Witness ==
    /\ out.op = "save" /\ out.res = "error"
    /\ indexed /\ max_key = 0 /\ ~idx.present /\ Len(file) >= 2

====
